---- MODULE Spec2Model ----
(***************************************************************************)
(* CiteWise: the search path (Archive/citewise_utils.py, mirrored by       *)
(* pages/002_Find_Citations.py) and the upload path                        *)
(* (pages/001_Upload_Sources.py) over one shared ChromaDB store.           *)
(*                                                                         *)
(* Strings the code inspects (the query, the match count, chunk ids) are   *)
(* sequences of one-character strings.  Distances are naturals: only their *)
(* order is used by the code.  The embedding model, the vector store and   *)
(* the text splitter are external: each call returns any value its         *)
(* interface allows, or raises.                                            *)
(***************************************************************************)
EXTENDS Integers, Sequences, FiniteSets, TLC

\* ------------------------------------------------------------------ bounds
\* distances returned by the store range over 0..MaxDist
MaxDist == 3
\* an uploaded PDF has at most MaxPages pages
MaxPages == 2
\* the splitter returns at most MaxParts parts for one page
MaxParts == 2

\* ------------------------------------------------------- program constants
\* retrieve_top_k: k = max(1, min(int(k), 50))
MaxNResults == 50

\* ---------------------------------------------------------------- helpers
Min(a, b) == IF a <= b THEN a ELSE b
Max(a, b) == IF a >= b THEN a ELSE b

\* s[:n] for n >= 0
Take(s, n) == SubSeq(s, 1, Min(n, Len(s)))

Range(s) == {s[i] : i \in 1..Len(s)}

\* sequences over S of length 0..n
SeqsUpTo(S, n) == UNION {[1..m -> S] : m \in 0..n}

\* duplicate-free sequences over the finite set S
Orderings(S) ==
    {s \in SeqsUpTo(S, Cardinality(S)) : \A i, j \in 1..Len(s) : i # j => s[i] # s[j]}

\* ------------------------------------------------------------ str methods
IsSpace(c) == c \in {" ", "\n", "\t"}

RECURSIVE LStrip(_)
LStrip(s) == IF s # <<>> /\ IsSpace(Head(s)) THEN LStrip(Tail(s)) ELSE s

RECURSIVE RStrip(_)
RStrip(s) ==
    IF s # <<>> /\ IsSpace(s[Len(s)]) THEN RStrip(SubSeq(s, 1, Len(s) - 1)) ELSE s

\* str.strip()
Strip(s) == LStrip(RStrip(s))

DigitChars == <<"0", "1", "2", "3", "4", "5", "6", "7", "8", "9">>

IsDigit(c) == \E d \in 1..10 : DigitChars[d] = c

DigitVal(c) == (CHOOSE d \in 1..10 : DigitChars[d] = c) - 1

RECURSIVE DigitsVal(_)
DigitsVal(s) ==
    IF s = <<>> THEN 0 ELSE 10 * DigitsVal(SubSeq(s, 1, Len(s) - 1)) + DigitVal(s[Len(s)])

\* int(num_k): surrounding whitespace is dropped, one optional sign, then
\* decimal digits; on anything else int() raises ValueError
Unsigned(s) ==
    LET t == Strip(s) IN IF t # <<>> /\ Head(t) \in {"-", "+"} THEN Tail(t) ELSE t

IsIntLiteral(s) ==
    Unsigned(s) # <<>> /\ \A i \in 1..Len(Unsigned(s)) : IsDigit(Unsigned(s)[i])

ParseInt(s) ==
    IF Head(Strip(s)) = "-" THEN 0 - DigitsVal(Unsigned(s)) ELSE DigitsVal(Unsigned(s))

\* str(n) for n >= 0, as used by the f-string of chunk_id
RECURSIVE ToDigits(_)
ToDigits(n) ==
    IF n < 10 THEN <<DigitChars[n + 1]>>
    ELSE ToDigits(n \div 10) \o <<DigitChars[(n % 10) + 1]>>

\* ------------------------------------------------------------- the inputs
Names == {"paperA", "paperB"}

Queries == {<<>>, <<" ">>, <<"q">>, <<" ", "q">>}

KInputs ==
    { <<>>, <<"x">>, <<"0">>, <<"-", "1">>, <<"1", ".", "0">>,
      <<"1">>, <<"2">>, <<" ", "3">>, <<"5", "1">> }

Selections == UNION {Orderings(S) : S \in SUBSET Names}

\* ------------------------------------------------- upload: pure functions
\* what the splitter can return as one part: a whitespace-only part or text
Parts == {<<" ">>, <<"x">>}

PartSeqs == SeqsUpTo(Parts, MaxParts)

\* an uploaded file: its name stem, whether its bytes open as a PDF, and for
\* every page whether clean_text(page.get_text()) is non-empty
Uploads ==
    [name : Names, readable : BOOLEAN, hasText : SeqsUpTo(BOOLEAN, MaxPages)]

\* load_pdf_pages, the loop: page i (counted from 1) is kept iff it has text
RECURSIVE PagesOf(_, _, _)
PagesOf(filename, hasText, i) ==
    IF i > Len(hasText) THEN <<>>
    ELSE (IF hasText[i] THEN <<[page_num |-> <<i>>, source |-> filename]>> ELSE <<>>)
         \o PagesOf(filename, hasText, i + 1)

load_pdf_pages(uploaded_file) ==
    IF ~uploaded_file.readable THEN <<>>
    ELSE PagesOf(uploaded_file.name, uploaded_file.hasText, 1)

\* f"{filename}_p{curr_page_num}_c{j}"
ChunkIdNoPart(filename, curr_page_num, j) ==
    <<filename, "_", "p">> \o ToDigits(curr_page_num)

ChunkId(filename, curr_page_num, j) ==
    <<filename, "_", "p">> \o ToDigits(curr_page_num) \o <<"_", "c">> \o ToDigits(j)

\* the page_nums of part j (0-based) of page i (1-based position in pages)
PageNums(pages, i, j) ==
    IF i > 1 /\ j = 0
    THEN <<pages[i - 1].page_num[1], pages[i].page_num[1]>>
    ELSE <<pages[i].page_num[1]>>

\* the inner loop of split_pages_with_metadata from part j (0-based) on
RECURSIVE PageChunks(_, _, _, _)
PageChunks(pages, i, split_parts, j) ==
    IF j >= Len(split_parts) THEN <<>>
    ELSE LET part == split_parts[j + 1]
             rest == PageChunks(pages, i, split_parts, j + 1)
         IN  IF Strip(part) = <<>> THEN rest
             ELSE << [ page_num |-> PageNums(pages, i, j),
                       source   |-> pages[i].source,
                       chunk_id |-> ChunkId(pages[i].source, pages[i].page_num[1], j),
                       text     |-> part ] >> \o rest

\* split_pages_with_metadata; splits[i] is what splitter.split_text returned
\* for page i
RECURSIVE SplitFrom(_, _, _)
SplitFrom(pages, splits, i) ==
    IF i > Len(pages) THEN <<>>
    ELSE PageChunks(pages, i, splits[i], 0) \o SplitFrom(pages, splits, i + 1)

split_pages_with_metadata(pages, splits) == SplitFrom(pages, splits, 1)

\* prep_for_embedding: ids and documents
ChunkIds(chunks) == [c \in 1..Len(chunks) |-> chunks[c].chunk_id]

Documents(chunks) == [c \in 1..Len(chunks) |-> chunks[c].text]

\* client.get_or_create_collection(name)
get_or_create_collection(st, name) ==
    [n \in (DOMAIN st) \cup {name} |-> IF n \in DOMAIN st THEN st[n] ELSE {}]

\* collection.add(ids=ids, ...): afterwards the collection holds every id
CollectionAdd(st, name, ids) ==
    [st EXCEPT ![name] = st[name] \cup Range(ids)]

\* what embed_file_stream_to_chromadb returns after the store write
ReturnAfterAddAlways(addOk, documents) == Len(documents)

ReturnAfterAdd(addOk, documents) == IF addOk THEN Len(documents) ELSE 0

\* the chunk ids a two-page document with one text part per page leaves in
\* its collection
SampleUpload(name) == [name |-> name, readable |-> TRUE, hasText |-> <<TRUE, TRUE>>]

SampleIds(name) ==
    Range(ChunkIds(split_pages_with_metadata(
        load_pdf_pages(SampleUpload(name)), <<<<<<"x">>>>, <<<<"x">>>>>>)))

\* the stores the upload page leaves behind after uploading sample documents
InitStores == {[n \in S |-> SampleIds(n)] : S \in SUBSET Names}

\* ------------------------------------------------- search: pure functions
None == "None"

\* the four kinds of dict run_search_logic returns
Warning(m) == [kind |-> "warning", message |-> m, items |-> <<>>]
Error(m)   == [kind |-> "error", message |-> m, items |-> <<>>]
Info(m)    == [kind |-> "info", message |-> m, items |-> <<>>]
Results(l) == [kind |-> "results", message |-> "", items |-> l]
NoOutcome  == [kind |-> "none", message |-> "", items |-> <<>>]

\* the k the try block of run_search_logic accepts: int(num_k) > 0
AcceptsZero(num_k) == IsIntLiteral(num_k) /\ ParseInt(num_k) >= 0

ValidK(num_k) == IsIntLiteral(num_k) /\ ParseInt(num_k) > 0

\* the validations of run_search_logic, in their order: the message of the
\* first failing one, or "ok"
ValidateQueryFirst(selected, query, num_k) ==
    IF Strip(query) = <<>> THEN "Please enter a query."
    ELSE IF selected = <<>> THEN "Please select at least one source to search."
    ELSE IF ~ValidK(num_k) THEN "Please enter a valid positive number for matches."
    ELSE "ok"

Validate(selected, query, num_k) ==
    IF selected = <<>> THEN "Please select at least one source to search."
    ELSE IF Strip(query) = <<>> THEN "Please enter a query."
    ELSE IF ~ValidK(num_k) THEN "Please enter a valid positive number for matches."
    ELSE "ok"

\* embed_query: None for a blank query (the model is not called) and when
\* embedder.encode raises
embed_query(query, encodeOk) ==
    IF Strip(query) = <<>> THEN None ELSE IF encodeOk THEN "vector" ELSE None

\* retrieve_top_k: k = max(1, min(int(k), 50))
NResults(n) == Max(1, Min(n, MaxNResults))

\* what collection.query(n_results=n) can return from a collection holding
\* ids: at most n candidates, each a stored id with a distance
QueryReplies(ids, n) ==
    {r \in SeqsUpTo([id : ids, distance : 0..MaxDist], Min(n, Cardinality(ids))) :
        \A a, b \in 1..Len(r) : a # b => r[a].id # r[b].id}

\* retrieve_top_k after get_or_create_collection: {} without a query vector
retrieve_top_k(qv, n, reply) == IF qv = None THEN <<>> ELSE reply

\* get_sources: results_by_collection is the dict in insertion order, a
\* sequence of [name, res]; res is the parallel ids/distances lists as one
\* sequence of candidates
RECURSIVE SourcesOf(_, _)
SourcesOf(filename, res) ==
    IF res = <<>> THEN <<>>
    ELSE <<[filename |-> filename, id |-> Head(res).id, distance |-> Head(res).distance]>>
         \o SourcesOf(filename, Tail(res))

RECURSIVE get_sources(_)
get_sources(rbc) ==
    IF rbc = <<>> THEN <<>>
    ELSE (IF Head(rbc).res = <<>> THEN <<>> ELSE SourcesOf(Head(rbc).name, Head(rbc).res))
         \o get_sources(Tail(rbc))

\* sorted(..., key=distance): stable, so x goes behind every element whose
\* distance is not larger
RECURSIVE InsertDescending(_, _)
InsertDescending(x, sorted) ==
    IF sorted = <<>> THEN <<x>>
    ELSE IF Head(sorted).distance >= x.distance
         THEN <<Head(sorted)>> \o InsertDescending(x, Tail(sorted))
         ELSE <<x>> \o sorted

RECURSIVE InsertBeforeTies(_, _)
InsertBeforeTies(x, sorted) ==
    IF sorted = <<>> THEN <<x>>
    ELSE IF Head(sorted).distance < x.distance
         THEN <<Head(sorted)>> \o InsertBeforeTies(x, Tail(sorted))
         ELSE <<x>> \o sorted

RECURSIVE InsertByDistance(_, _)
InsertByDistance(x, sorted) ==
    IF sorted = <<>> THEN <<x>>
    ELSE IF Head(sorted).distance <= x.distance
         THEN <<Head(sorted)>> \o InsertByDistance(x, Tail(sorted))
         ELSE <<x>> \o sorted

RECURSIVE SortedByDistance(_)
SortedByDistance(l) ==
    IF l = <<>> THEN <<>>
    ELSE InsertByDistance(l[Len(l)], SortedByDistance(SubSeq(l, 1, Len(l) - 1)))

\* get_top_k_sources
TopKUnsorted(sources_list, num_k) == Take(sources_list, num_k)

get_top_k_sources(sources_list, num_k) ==
    IF sources_list = <<>> THEN <<>> ELSE Take(SortedByDistance(sources_list), num_k)

\* one pass of the loop of run_search_logic: a non-empty res is kept under
\* its collection name
KeepResult(rbc, name, res) ==
    IF res # <<>> THEN Append(rbc, [name |-> name, res |-> res]) ELSE rbc

\* the whole loop over the names in order; replyOf[name] is what
\* retrieve_top_k returned for that collection
RECURSIVE CollectFrom(_, _, _)
CollectFrom(rbc, selected, replyOf) ==
    IF selected = <<>> THEN rbc
    ELSE CollectFrom(KeepResult(rbc, Head(selected), replyOf[Head(selected)]),
                     Tail(selected), replyOf)

\* the tail of run_search_logic, from "Flatten results" on
Classify(rbc, n) ==
    IF rbc = <<>> THEN Warning("No results returned from the selected sources.")
    ELSE LET top_hits == get_top_k_sources(get_sources(rbc), n)
         IN  IF top_hits = <<>> THEN Info("No matches found.") ELSE Results(top_hits)

\* ------------------------------------------------------------------ state
VARIABLES
    store,                  \* the ChromaDB at DB_PATH: collection name -> chunk ids
    store0,                 \* the store when the running call was entered
    pc,                     \* run_search_logic: "idle", "retrieve", "done"
    user_query, num_k, selected_sources,    \* its arguments
    qvec, k, idx,           \* its locals; idx is the loop's position
    results_by_collection,
    replies,                \* what each retrieve_top_k call of this run returned
    outcome,                \* the dict it returned
    raised,                 \* an exception left run_search_logic
    encodeCalls, queryCalls,        \* embedder.encode / collection.query calls
    upc,                    \* embed_file_stream_to_chromadb: "idle", "split",
                            \* "embed", "store", "done"
    uploaded_file, pages, splits, chunks,
    fault,                  \* the except branch it took: "none", "embedding", "store"
    ret                     \* its return value, -1 before it returns

searchVars ==
    <<pc, user_query, num_k, selected_sources, qvec, k, idx,
      results_by_collection, replies, outcome, raised, encodeCalls, queryCalls>>

uploadVars == <<upc, uploaded_file, pages, splits, chunks, fault, ret>>

vars == <<store, store0, searchVars, uploadVars>>

SearchIdle ==
    /\ pc = "idle"
    /\ user_query = <<>> /\ num_k = <<>> /\ selected_sources = <<>>
    /\ qvec = None /\ k = 0 /\ idx = 0
    /\ results_by_collection = <<>> /\ replies = <<>>
    /\ outcome = NoOutcome /\ raised = FALSE
    /\ encodeCalls = 0 /\ queryCalls = 0

UploadIdle ==
    /\ upc = "idle"
    /\ uploaded_file = SampleUpload("paperA")
    /\ pages = <<>> /\ splits = <<>> /\ chunks = <<>>
    /\ fault = "none"
    /\ ret = -1

Init ==
    /\ store \in InitStores
    /\ store0 = store
    /\ SearchIdle
    /\ UploadIdle

\* ----------------------------------------------------- run_search_logic
\* the validations and the embedding of the query
StartSearch ==
    /\ pc = "idle"
    /\ \E q \in Queries, n \in KInputs, sel \in Selections, encodeOk \in BOOLEAN :
        LET v == Validate(sel, q, n)
            qv == embed_query(q, encodeOk)
        IN  /\ user_query' = q
            /\ num_k' = n
            /\ selected_sources' = sel
            /\ store0' = store
            /\ idx' = 1
            /\ IF v # "ok"
               THEN /\ outcome' = Warning(v)
                    /\ pc' = "done"
                    /\ UNCHANGED <<qvec, k, encodeCalls>>
               ELSE /\ k' = ParseInt(n)
                    /\ qvec' = qv
                    /\ encodeCalls' = IF Strip(q) = <<>> THEN 0 ELSE 1
                    /\ IF qv = None
                       THEN /\ outcome' = Error("Could not embed your query.")
                            /\ pc' = "done"
                       ELSE /\ outcome' = NoOutcome
                            /\ pc' = "retrieve"
    /\ UNCHANGED <<store, results_by_collection, replies, raised, queryCalls, uploadVars>>

\* retrieve_top_k: chromadb.PersistentClient or get_or_create_collection raises
RetrieveOpenFails ==
    /\ pc = "retrieve" /\ idx <= Len(selected_sources)
    /\ raised' = TRUE
    /\ pc' = "done"
    /\ UNCHANGED <<store, store0, user_query, num_k, selected_sources, qvec, k, idx,
                   results_by_collection, replies, outcome, encodeCalls, queryCalls,
                   uploadVars>>

\* retrieve_top_k: the collection is there or created, collection.query raises
RetrieveQueryFails ==
    /\ pc = "retrieve" /\ idx <= Len(selected_sources)
    /\ store' = get_or_create_collection(store, selected_sources[idx])
    /\ queryCalls' = queryCalls + 1
    /\ raised' = TRUE
    /\ pc' = "done"
    /\ UNCHANGED <<store0, user_query, num_k, selected_sources, qvec, k, idx,
                   results_by_collection, replies, outcome, encodeCalls, uploadVars>>

\* one pass of the loop: retrieve_top_k returns
RetrieveReturns ==
    /\ pc = "retrieve" /\ idx <= Len(selected_sources)
    /\ LET name == selected_sources[idx]
           opened == get_or_create_collection(store, name)
       IN  /\ store' = opened
           /\ \E reply \in QueryReplies(opened[name], NResults(k)) :
                LET res == retrieve_top_k(qvec, k, reply)
                IN  /\ results_by_collection' = KeepResult(results_by_collection, name, res)
                    /\ replies' = Append(replies, [name |-> name, res |-> res])
    /\ queryCalls' = queryCalls + 1
    /\ idx' = idx + 1
    /\ UNCHANGED <<store0, pc, user_query, num_k, selected_sources, qvec, k,
                   outcome, raised, encodeCalls, uploadVars>>

\* after the loop: flatten, rank, classify
FinishSearch ==
    /\ pc = "retrieve" /\ idx > Len(selected_sources)
    /\ outcome' = Classify(results_by_collection, k)
    /\ pc' = "done"
    /\ UNCHANGED <<store, store0, user_query, num_k, selected_sources, qvec, k, idx,
                   results_by_collection, replies, raised, encodeCalls, queryCalls,
                   uploadVars>>

\* the caller has the outcome; the next call starts from the store as it is
NextSearch ==
    /\ pc = "done"
    /\ pc' = "idle"
    /\ user_query' = <<>> /\ num_k' = <<>> /\ selected_sources' = <<>>
    /\ qvec' = None /\ k' = 0 /\ idx' = 0
    /\ results_by_collection' = <<>> /\ replies' = <<>>
    /\ outcome' = NoOutcome /\ raised' = FALSE
    /\ encodeCalls' = 0 /\ queryCalls' = 0
    /\ store0' = store
    /\ UNCHANGED <<store, uploadVars>>

Next ==
    \/ StartSearch
    \/ RetrieveOpenFails
    \/ RetrieveQueryFails
    \/ RetrieveReturns
    \/ FinishSearch
    \/ NextSearch

Spec == Init /\ [][Next]_vars

\* ------------------------------------------------------ search: properties
SelectWarning == Warning("Please select at least one source to search.")
QueryWarning == Warning("Please enter a query.")
NumberWarning == Warning("Please enter a valid positive number for matches.")
NoResultsWarning == Warning("No results returned from the selected sources.")

BlankQuery == \A i \in 1..Len(user_query) : IsSpace(user_query[i])

PositiveK == IsIntLiteral(num_k) /\ ParseInt(num_k) >= 1

Untouched == encodeCalls = 0 /\ queryCalls = 0 /\ store = store0

\* C1: the checks of run_search_logic apply in the order selection, query,
\* count, and the first failing one decides the warning; in each of the three
\* cases neither the embedder nor any collection is invoked.
C1_ValidationOrder ==
    pc = "done" =>
        /\ selected_sources = <<>> => outcome = SelectWarning /\ Untouched
        /\ selected_sources # <<>> /\ BlankQuery => outcome = QueryWarning /\ Untouched
        /\ selected_sources # <<>> /\ ~BlankQuery /\ ~PositiveK =>
               outcome = NumberWarning /\ Untouched

\* the empty selection wins over a blank query and an invalid count
C1_Witness ==
    /\ pc = "done"
    /\ selected_sources = <<>> /\ BlankQuery /\ ~PositiveK
    /\ outcome = SelectWarning

\* C2: the returned list is ascending in distance: distance[i] <= distance[i+1]
\* for every adjacent pair.
C2_RankMonotone ==
    outcome.kind = "results" =>
        \A i \in 1..(Len(outcome.items) - 1) :
            outcome.items[i].distance <= outcome.items[i + 1].distance

\* a result of two or more hits whose flattened candidates were not in order
C2_Witness ==
    /\ outcome.kind = "results"
    /\ Len(outcome.items) >= 2
    /\ LET flat == get_sources(results_by_collection)
       IN  \E i \in 1..(Len(flat) - 1) : flat[i].distance > flat[i + 1].distance

\* the candidates of this run in flattened order: the collections as they were
\* enumerated, each one's candidates as the store returned them, tagged with
\* the collection name
RECURSIVE Flattened(_)
Flattened(reps) ==
    IF reps = <<>> THEN <<>>
    ELSE [i \in 1..Len(Head(reps).res) |->
              [filename |-> Head(reps).name,
               id       |-> Head(reps).res[i].id,
               distance |-> Head(reps).res[i].distance]]
         \o Flattened(Tail(reps))

\* the place of flat[i] in the stable ascending order
Rank(flat, i) ==
    1 + Cardinality({j \in 1..Len(flat) :
            \/ flat[j].distance < flat[i].distance
            \/ flat[j].distance = flat[i].distance /\ j < i})

StableTopK(flat, n) ==
    [r \in 1..Min(n, Len(flat)) |-> flat[CHOOSE i \in 1..Len(flat) : Rank(flat, i) = r]]

\* C3: the result is the first k elements of the stable ascending-distance
\* sort of the flattened candidates: equal distances keep their flattened
\* order and the result has min(k, number of candidates) entries.
C3_StableTopK ==
    outcome.kind = "results" => outcome.items = StableTopK(Flattened(replies), k)

DistancesOf(l) == [i \in 1..Len(l) |-> l[i].distance]

FilenamesOf(l) == [i \in 1..Len(l) |-> l[i].filename]

\* paperA -> [1, 2], paperB -> [0, 3], k = 3 gives [0, 1, 2] from
\* [paperB, paperA, paperA]
C3_Witness ==
    /\ outcome.kind = "results"
    /\ k = 3
    /\ Len(replies) = 2
    /\ replies[1].name = "paperA" /\ DistancesOf(replies[1].res) = <<1, 2>>
    /\ replies[2].name = "paperB" /\ DistancesOf(replies[2].res) = <<0, 3>>
    /\ DistancesOf(outcome.items) = <<0, 1, 2>>
    /\ FilenamesOf(outcome.items) = <<"paperB", "paperA", "paperA">>

\* what each selected collection returned in this run
ReplyOf ==
    [n \in Range(selected_sources) |->
        (CHOOSE r \in Range(replies) : r.name = n).res]

\* the ranked list of a run that enumerates the collections in the order p
RankedFor(p) == get_top_k_sources(get_sources(CollectFrom(<<>>, p, ReplyOf)), k)

Reorderings == {p \in Orderings(Range(selected_sources)) : Len(p) = Len(selected_sources)}

Answered == pc = "done" /\ outcome.kind = "results"

\* C4 as stated: whatever the order the selected collections are enumerated
\* in, the returned ranked list is identical, ties included.
C4_OrderIndependent ==
    Answered => \A p \in Reorderings : RankedFor(p) = outcome.items

CrossTie ==
    \E a, b \in Range(replies) :
        /\ a.name # b.name
        /\ \E i \in 1..Len(a.res), j \in 1..Len(b.res) : a.res[i].distance = b.res[j].distance

\* C4 amended: the order of enumeration never changes the distances of the
\* returned list, and it does not change the list when no two candidates of
\* different collections have equal distance.
C4_OrderIndependentUpToTies ==
    Answered =>
        \A p \in Reorderings :
            /\ DistancesOf(RankedFor(p)) = DistancesOf(outcome.items)
            /\ ~CrossTie => RankedFor(p) = outcome.items

\* two collections with candidates, no tie between them, and a cutoff
C4_Witness ==
    /\ Answered
    /\ Len(results_by_collection) = 2
    /\ ~CrossTie
    /\ Len(outcome.items) < Len(get_sources(results_by_collection))

\* C5: a failing collection counts as zero candidates: the search still ends
\* with one of the four outcome kinds and no exception leaves run_search_logic.
C5_NoRawException ==
    pc = "done" => ~raised /\ outcome.kind \in {"warning", "error", "info", "results"}

\* C6: a search leaves the set of collections and their contents as they were
\* when it was called.
C6_SearchOnlyReads == store = store0

AllEmpty == \A i \in 1..Len(replies) : replies[i].res = <<>>

\* C7: once validation passed and the query embedded, the outcome is the
\* no-results warning iff every selected collection returned no candidate, and
\* Results with a non-empty list otherwise; Info is never the outcome.
C7_NoResultsIffAllEmpty ==
    /\ outcome.kind # "info"
    /\ pc = "done" /\ ~raised /\ qvec # None =>
        /\ outcome = NoResultsWarning <=> AllEmpty
        /\ ~AllEmpty => outcome.kind = "results" /\ outcome.items # <<>>

\* two collections queried, both without candidates
C7_Witness ==
    /\ pc = "done" /\ ~raised /\ qvec # None
    /\ Len(replies) = 2 /\ AllEmpty
    /\ outcome = NoResultsWarning

\* ----------------------------------------- embed_file_stream_to_chromadb
\* load_pdf_pages; without pages the call returns 0
LoadPdf ==
    /\ upc = "idle"
    /\ \E f \in Uploads :
        /\ uploaded_file' = f
        /\ pages' = load_pdf_pages(f)
        /\ IF load_pdf_pages(f) = <<>>
           THEN upc' = "done" /\ ret' = 0
           ELSE upc' = "split" /\ ret' = -1
    /\ store0' = store
    /\ UNCHANGED <<store, splits, chunks, fault, searchVars>>

\* split_pages_with_metadata, the splitter returning any parts for each page;
\* without chunks the call returns 0
SplitPages ==
    /\ upc = "split"
    /\ \E sp \in [1..Len(pages) -> PartSeqs] :
        /\ splits' = sp
        /\ chunks' = split_pages_with_metadata(pages, sp)
        /\ IF split_pages_with_metadata(pages, sp) = <<>>
           THEN upc' = "done" /\ ret' = 0
           ELSE upc' = "embed" /\ ret' = -1
    /\ UNCHANGED <<store, store0, uploaded_file, pages, fault, searchVars>>

\* embedder.encode(documents) raises
EmbedFails ==
    /\ upc = "embed"
    /\ upc' = "done"
    /\ fault' = "embedding"
    /\ ret' = 0
    /\ UNCHANGED <<store, store0, uploaded_file, pages, splits, chunks, searchVars>>

EmbedBatch ==
    /\ upc = "embed"
    /\ upc' = "store"
    /\ UNCHANGED <<store, store0, uploaded_file, pages, splits, chunks, fault, ret, searchVars>>

\* chromadb.PersistentClient or get_or_create_collection raises
StoreOpenFails ==
    /\ upc = "store"
    /\ upc' = "done"
    /\ fault' = "store"
    /\ ret' = ReturnAfterAdd(FALSE, Documents(chunks))
    /\ UNCHANGED <<store, store0, uploaded_file, pages, splits, chunks, searchVars>>

\* the collection is there or created, collection.add raises
StoreAddFails ==
    /\ upc = "store"
    /\ store' = get_or_create_collection(store, uploaded_file.name)
    /\ upc' = "done"
    /\ fault' = "store"
    /\ ret' = ReturnAfterAdd(FALSE, Documents(chunks))
    /\ UNCHANGED <<store0, uploaded_file, pages, splits, chunks, searchVars>>

StoreAdd ==
    /\ upc = "store"
    /\ store' = CollectionAdd(get_or_create_collection(store, uploaded_file.name),
                              uploaded_file.name, ChunkIds(chunks))
    /\ upc' = "done"
    /\ ret' = ReturnAfterAdd(TRUE, Documents(chunks))
    /\ UNCHANGED <<store0, uploaded_file, pages, splits, chunks, fault, searchVars>>

UploadNext ==
    \/ LoadPdf
    \/ SplitPages
    \/ EmbedFails
    \/ EmbedBatch
    \/ StoreOpenFails
    \/ StoreAddFails
    \/ StoreAdd

\* one upload into a store earlier uploads have filled
UploadSpec == Init /\ [][UploadNext]_vars

\* ------------------------------------------------------ upload: properties
\* C8: the chunk_id values of the chunks of one document are pairwise
\* distinct.
C8_ChunkIdsDistinct ==
    \A a, b \in 1..Len(chunks) : a # b => chunks[a].chunk_id # chunks[b].chunk_id

\* two pages with two chunks each
C8_Witness ==
    /\ Len(pages) = 2
    /\ Len(chunks) = 4

LastOf(s) == s[Len(s)]

\* the positions in chunks of the chunks emitted for the page numbered p
ChunksOfPage(p) == {c \in 1..Len(chunks) : LastOf(chunks[c].page_num) = p}

FirstOfPage(p) == CHOOSE c \in ChunksOfPage(p) : \A d \in ChunksOfPage(p) : c <= d

\* C9: for a page after the first that contributes a chunk, the first chunk
\* emitted has pageSpan [preceding non-empty page, page] and every other chunk
\* has pageSpan [its page]; every chunk of the first page has pageSpan [its
\* page]; every pageSpan has length 1 or 2 and is strictly ascending.
C9_PageSpans ==
    /\ \A i \in 1..Len(pages) :
          LET p == pages[i].page_num[1]
          IN  \A c \in ChunksOfPage(p) :
                  chunks[c].page_num =
                      IF i > 1 /\ c = FirstOfPage(p)
                      THEN <<pages[i - 1].page_num[1], p>>
                      ELSE <<p>>
    /\ \A c \in 1..Len(chunks) :
          /\ Len(chunks[c].page_num) \in {1, 2}
          /\ Len(chunks[c].page_num) = 2 => chunks[c].page_num[1] < chunks[c].page_num[2]

Collection(st, name) == IF name \in DOMAIN st THEN st[name] ELSE {}

OtherCollectionsKept(name) ==
    /\ DOMAIN store \ {name} = DOMAIN store0 \ {name}
    /\ \A n \in DOMAIN store0 \ {name} : store[n] = store0[n]

\* C10: the call returns 0 when there are no pages, no chunks, the embedding
\* fails or the store write fails, and the collection then holds exactly the
\* ids it held before; a count other than 0 is the number of chunks, and every
\* chunk is then in the collection.  Until the call returns nothing is
\* written.
C10_AllOrNothing ==
    LET name == uploaded_file.name
    IN  /\ OtherCollectionsKept(name)
        /\ upc \in {"idle", "split", "embed", "store"} => store = store0
        /\ upc = "done" =>
              /\ ret \in {0, Len(chunks)}
              /\ pages = <<>> \/ chunks = <<>> \/ fault # "none" => ret = 0
              /\ ret = 0 => Collection(store, name) = Collection(store0, name)
              /\ ret # 0 =>
                    Collection(store, name) =
                        Collection(store0, name) \cup Range(ChunkIds(chunks))

\* the write failed after the collection was created: 0 and no chunk stored
C10_Witness ==
    /\ upc = "done"
    /\ chunks # <<>>
    /\ fault = "store"
    /\ ret = 0
    /\ uploaded_file.name \in DOMAIN store
    /\ uploaded_file.name \notin DOMAIN store0

\* how many chunks of the same page were emitted before chunk c
PlaceInPage(c) ==
    Cardinality({d \in ChunksOfPage(LastOf(chunks[c].page_num)) : d < c})

\* C11: the index j in chunk_id '{source}_p{page}_c{j}' counts the non-blank
\* parts only: the chunks emitted for one page carry 0, 1, ..., n-1 in the
\* order they were emitted, whatever blank parts the splitter returned.
C11_ContiguousPartIndex ==
    \A c \in 1..Len(chunks) :
        chunks[c].chunk_id =
            <<chunks[c].source, "_", "p">> \o ToDigits(LastOf(chunks[c].page_num))
                \o <<"_", "c">> \o ToDigits(PlaceInPage(c))

====
